---------------------------- MODULE Spec2Model ----------------------------
(***************************************************************************)
(* Model of the GENERATE_REPORT action (src/unnamed/part_000):             *)
(*   - generateTeamReport(runtime, standupType, roomId)    lines 15-172    *)
(*   - generateReport.handler(runtime, message, state, options, callback)  *)
(*                                                         lines 188-306   *)
(* The runtime (getMemories, useModel) and the delivery callback are       *)
(* external: each of their calls either returns or throws, and what they   *)
(* return is drawn from small sets.                                        *)
(*                                                                         *)
(* Strings the code transforms (toLowerCase, trim, property-key ordering)  *)
(* are sequences of one-character strings; strings the code only passes    *)
(* to Date or JSON.parse are TLA+ strings looked up in the tables          *)
(* DateGetTime and JSONParse.  Record fields this code only copies into    *)
(* the prompt or the heading (teamMemberName, serverName) are left out.    *)
(***************************************************************************)
EXTENDS Integers, Sequences, FiniteSets, TLC

VARIABLES
  state,          \* handler argument: [present, standupType]
  callback,       \* handler argument: TRUE iff a callback is supplied
  text,           \* message.content.text: [some, val]
  parsedType,     \* result of the classification useModel call: [some, val]
  standupType,    \* the handler's local standupType (line 244)
  hpc,            \* position of the handler
  result,         \* what the handler's promise settles to
  calls,          \* invocations of callback, in order: [text, threw]
  memories,       \* what runtime.getMemories returns
  gpc,            \* position of generateTeamReport
  reqType,        \* generateTeamReport's standupType parameter
  updates,        \* line 35-50: the filtered, mapped, sorted updates
  members,        \* line 75: Object.entries(updatesByMember)
  idx,            \* index of the next entry of members to report
  report,         \* the report text, as its parts
  fetchCount,     \* number of getMemories calls
  analysisCalls   \* number of per-member useModel calls

hvars == <<state, callback, text, parsedType, standupType, hpc, result, calls>>
gvars == <<memories, gpc, reqType, updates, members, idx, report, fetchCount, analysisCalls>>
vars == <<state, callback, text, parsedType, standupType, hpc, result, calls,
          memories, gpc, reqType, updates, members, idx, report, fetchCount,
          analysisCalls>>

-----------------------------------------------------------------------------
(* Bounds of the model *)

\* longest list of stored memories in the specifications of the report
MaxMem == 3
\* longest list of stored memories in the specification of the "recent" cap
\* (more records of one member than the cap of 3)
MaxMemRecent == 4
\* longest list of stored memories in the specification of the handler
MaxMemHandler == 1

\* line 126: memberUpdates.slice(0, 3)
RecentLimit == 3

-----------------------------------------------------------------------------
(* Strings *)

S_standup == <<"s", "t", "a", "n", "d", "u", "p">>
S_sprint == <<"s", "p", "r", "i", "n", "t">>
S_mental_health == <<"m", "e", "n", "t", "a", "l", "_", "h", "e", "a", "l", "t", "h">>
S_project_status == <<"p", "r", "o", "j", "e", "c", "t", "_", "s", "t", "a", "t", "u", "s">>
S_retro == <<"r", "e", "t", "r", "o">>

UpperChars == <<"A", "B", "C", "D", "E", "F", "G", "H", "I", "J", "K", "L", "M",
                "N", "O", "P", "Q", "R", "S", "T", "U", "V", "W", "X", "Y", "Z">>
LowerChars == <<"a", "b", "c", "d", "e", "f", "g", "h", "i", "j", "k", "l", "m",
                "n", "o", "p", "q", "r", "s", "t", "u", "v", "w", "x", "y", "z">>
WhiteSpace == {" ", "\n", "\t"}

\* String.prototype.toLowerCase, one character
LowerChar(c) ==
  IF \E i \in 1..Len(UpperChars) : UpperChars[i] = c
  THEN LowerChars[CHOOSE i \in 1..Len(UpperChars) : UpperChars[i] = c]
  ELSE c

\* String.prototype.toLowerCase
ToLowerCase(s) == [i \in 1..Len(s) |-> LowerChar(s[i])]

\* String.prototype.trim: drop leading and trailing white space
Trim(s) ==
  LET keep == {i \in 1..Len(s) : s[i] \notin WhiteSpace}
  IN IF keep = {} THEN <<>>
     ELSE LET lo == CHOOSE i \in keep : \A j \in keep : i <= j
              hi == CHOOSE i \in keep : \A j \in keep : j <= i
          IN SubSeq(s, lo, hi)

\* an optional string: undefined, or a string
Undefined == [some |-> FALSE, val |-> <<>>]
Some(s) == [some |-> TRUE, val |-> s]
\* JavaScript truthiness of an optional string: undefined and "" are falsy
Truthy(o) == o.some /\ o.val # <<>>

-----------------------------------------------------------------------------
(* Date and JSON *)

\* new Date(timestamp).getTime(): a time value, or NaN for a string that is no date
DateGetTime(ts) ==
  CASE ts = "2024-01-01T09:00:00Z" -> [nan |-> FALSE, t |-> 1]
    [] ts = "2024-01-02T09:00:00Z" -> [nan |-> FALSE, t |-> 2]
    [] ts = "2024-01-03T09:00:00Z" -> [nan |-> FALSE, t |-> 3]
    [] OTHER -> [nan |-> TRUE, t |-> 0]

\* update.answers ? JSON.parse(update.answers) : {}  -- "ok" is FALSE when
\* JSON.parse throws; "entries" is FALSE when Object.entries of the value throws
\* (null); an empty or missing answers string is the empty object
JSONParse(answers) ==
  CASE answers = "" -> [ok |-> TRUE, entries |-> TRUE]
    [] answers = "{\"done\":\"api\",\"blockers\":\"none\"}" -> [ok |-> TRUE, entries |-> TRUE]
    [] answers = "null" -> [ok |-> TRUE, entries |-> FALSE]
    [] OTHER -> [ok |-> FALSE, entries |-> FALSE]

-----------------------------------------------------------------------------
(* Inputs *)

\* all sequences over S of length at most n
SeqsUpTo(S, n) == UNION {[1..k -> S] : k \in 0..n}

\* what the classification model returns (line 220)
ParsedTypes ==
  { <<>>,
    <<" ">>,
    <<"S", "P", "R", "I", "N", "T">>,
    <<" ", "S", "p", "r", "i", "n", "t", "\n">>,
    S_standup,
    <<"R", "E", "T", "R", "O">>,
    <<"M", "E", "N", "T", "A", "L", "_", "H", "E", "A", "L", "T", "H">>,
    <<"P", "R", "O", "J", "E", "C", "T", "_", "S", "T", "A", "T", "U", "S">>,
    <<"m", "e", "n", "t", "a", "l", " ", "h", "e", "a", "l", "t", "h">>,
    <<"s", "p", "r", "i", "n", "t", "s">>,
    <<"d", "a", "i", "l", "y">> }

\* state.standupType
StateTypes ==
  { Undefined,
    Some(<<>>),
    Some(<<"S", "p", "r", "i", "n", "t", " ">>),
    Some(S_retro),
    Some(<<"w", "e", "e", "k", "l", "y">>) }

\* message.content.text
Texts ==
  { Undefined, Some(<<>>), Some(<<"s", "p", "r", "i", "n", "t", " ", "r", "e", "p", "o", "r", "t", "?">>) }

T1 == "2024-01-01T09:00:00Z"
T2 == "2024-01-02T09:00:00Z"
T3 == "2024-01-03T09:00:00Z"
TBad == "yesterday-ish"

AnswersOk == "{\"done\":\"api\",\"blockers\":\"none\"}"
AnswersBad == "{\"done\": oops"
AnswersNull == "null"
AnswersEmpty == ""

Id12 == <<"1", "2">>
Id3 == <<"3">>
IdBig == <<"4", "2", "9", "4", "9", "6", "7", "2", "9", "5">>
IdAl == <<"a", "l">>

Update(id, checkIn, ts, answers) ==
  [teamMemberId |-> id, checkInType |-> checkIn, timestamp |-> ts, answers |-> answers]

\* a stored memory whose content holds a type tag and an update
Memory(type, update) == [type |-> type, hasUpdate |-> TRUE, update |-> update]

\* a stored memory whose content holds no update (content.update undefined);
\* the update field is never read
MemoryWithoutUpdate(type) ==
  [type |-> type, hasUpdate |-> FALSE, update |-> Update(<<>>, <<>>, "", "")]

Tagged(update) == Memory("team-member-update", update)

GroupRecords ==
  {Tagged(Update(id, S_standup, ts, AnswersOk)) : id \in {Id12, Id3, IdBig}, ts \in {T1, T2, T3}}

RecentRecords ==
  {Tagged(Update(Id12, S_standup, ts, AnswersOk)) : ts \in {T1, T2, TBad}}
    \cup {Tagged(Update(IdAl, S_standup, T1, AnswersOk))}

DecodeRecords ==
  {Tagged(Update(id, S_standup, T1, a)) :
     id \in {Id12, IdAl}, a \in {AnswersOk, AnswersBad, AnswersNull, AnswersEmpty}}
    \cup {Tagged(Update(Id12, S_standup, TBad, AnswersBad)),
          Tagged(Update(IdAl, S_standup, TBad, AnswersOk))}

SortRecords ==
  {Tagged(Update(id, S_standup, ts, AnswersOk)) : id \in {Id12, IdAl}, ts \in {T1, T2, T3, TBad}}

FilterRecords ==
  {Tagged(Update(id, c, ts, AnswersOk)) : id \in {Id12, IdAl}, c \in {S_standup, S_sprint}, ts \in {T1, T2}}
    \cup {Memory("message", Update(IdAl, c, T3, AnswersOk)) : c \in {S_standup, S_sprint}}
    \cup {MemoryWithoutUpdate("team-member-update"), MemoryWithoutUpdate("message")}

HandlerRecords ==
  { Tagged(Update(Id12, S_standup, T1, AnswersOk)),
    Tagged(Update(IdAl, S_sprint, TBad, AnswersBad)),
    MemoryWithoutUpdate("message") }

-----------------------------------------------------------------------------
(* generateTeamReport: filtering and sorting, lines 35-50 *)

\* the filter with the comparison of line 46 enabled
C10_FilterOnCategory(memory, type) ==
  memory.type = "team-member-update"
    /\ memory.hasUpdate /\ memory.update.checkInType = type

\* lines 36-47: the filter callback; standupType is read (requestedType) but
\* the comparison with checkInType is commented out
FilterMemory(memory, type) == memory.type = "team-member-update"

\* line 49: .filter((update) => !!update)
HasUpdate(memory) == memory.hasUpdate

\* lines 35-49: filter, map to content.update, filter the missing ones
FilteredUpdates(mems, type) ==
  LET tagged == SelectSeq(mems, LAMBDA m : FilterMemory(m, type))
      present == SelectSeq(tagged, LAMBDA m : HasUpdate(m))
  IN [i \in 1..Len(present) |-> present[i].update]

\* the comparator with its operands swapped: oldest first
C8_AscendingCompare(a, b) ==
  LET ta == DateGetTime(a.timestamp)
      tb == DateGetTime(b.timestamp)
  IN IF ta.nan \/ tb.nan THEN 0 ELSE ta.t - tb.t

\* line 50: the comparator, new Date(b.timestamp).getTime() -
\* new Date(a.timestamp).getTime(); a NaN result counts as +0 (SortCompare)
SortCompare(a, b) ==
  LET ta == DateGetTime(a.timestamp)
      tb == DateGetTime(b.timestamp)
  IN IF ta.nan \/ tb.nan THEN 0 ELSE tb.t - ta.t

\* whether the comparator is a consistent comparator for the elements of s;
\* Array.prototype.sort defines the order only then
ConsistentComparator(s) ==
  \A i, j, k \in 1..Len(s) :
    /\ (SortCompare(s[i], s[j]) = 0 /\ SortCompare(s[j], s[k]) = 0)
         => SortCompare(s[i], s[k]) = 0
    /\ (SortCompare(s[i], s[j]) < 0 /\ SortCompare(s[j], s[k]) < 0)
         => SortCompare(s[i], s[k]) < 0
    /\ (SortCompare(s[i], s[j]) > 0 /\ SortCompare(s[j], s[k]) > 0)
         => SortCompare(s[i], s[k]) > 0

\* x inserted after the leading elements that do not sort after it
InsertSorted(s, x) ==
  LET lead == {j \in 0..Len(s) : \A i \in 1..j : SortCompare(s[i], x) <= 0}
      k == CHOOSE j \in lead : \A l \in lead : l <= j
  IN SubSeq(s, 1, k) \o <<x>> \o SubSeq(s, k + 1, Len(s))

RECURSIVE StableSort(_)
\* Array.prototype.sort with a consistent comparator: the stable sorted order
StableSort(s) ==
  IF s = <<>> THEN <<>>
  ELSE InsertSorted(StableSort(SubSeq(s, 1, Len(s) - 1)), s[Len(s)])

\* line 50: the arrays .sort(...) can return; with a comparator that is not
\* consistent (a NaN time between two different times) the order is
\* implementation-defined: any permutation
SortOutcomes(s) ==
  IF ConsistentComparator(s) THEN {StableSort(s)}
  ELSE {[i \in 1..Len(s) |-> s[p[i]]] : p \in Permutations(1..Len(s))}

-----------------------------------------------------------------------------
(* generateTeamReport: grouping, lines 62-75 *)

Digits == <<"0", "1", "2", "3", "4", "5", "6", "7", "8", "9">>
IsDigit(c) == \E i \in 1..Len(Digits) : Digits[i] = c
DigitVal(c) == (CHOOSE i \in 1..Len(Digits) : Digits[i] = c) - 1

\* a < b for digit strings of the same length
DigitsLess(a, b) ==
  \E i \in 1..Len(a) :
    /\ \A j \in 1..(i - 1) : a[j] = b[j]
    /\ DigitVal(a[i]) < DigitVal(b[i])

\* 2^32 - 2, the largest array index
MaxArrayIndex == <<"4", "2", "9", "4", "9", "6", "7", "2", "9", "4">>

\* whether a property key is an array index: a canonical numeric string
\* in 0 .. 2^32 - 2
IsArrayIndex(key) ==
  /\ Len(key) >= 1
  /\ \A i \in 1..Len(key) : IsDigit(key[i])
  /\ Len(key) = 1 \/ key[1] # "0"
  /\ \/ Len(key) < Len(MaxArrayIndex)
     \/ Len(key) = Len(MaxArrayIndex)
          /\ (key = MaxArrayIndex \/ DigitsLess(key, MaxArrayIndex))

\* numeric a < b for array indices
IndexLess(a, b) ==
  Len(a) < Len(b) \/ (Len(a) = Len(b) /\ DigitsLess(a, b))

RECURSIVE AscendingIndices(_)
AscendingIndices(S) ==
  IF S = {} THEN <<>>
  ELSE LET m == CHOOSE x \in S : \A y \in S \ {x} : IndexLess(x, y)
       IN <<m>> \o AscendingIndices(S \ {m})

RECURSIVE InsertionOrder(_)
\* lines 64-72: the keys of updatesByMember in the order they are created
InsertionOrder(s) ==
  IF s = <<>> THEN <<>>
  ELSE LET front == InsertionOrder(SubSeq(s, 1, Len(s) - 1))
           id == s[Len(s)].teamMemberId
       IN IF \E i \in 1..Len(front) : front[i] = id THEN front
          ELSE Append(front, id)

\* lines 68-71: updatesByMember[id], the member's updates in the order of s
MemberUpdates(s, id) == SelectSeq(s, LAMBDA u : u.teamMemberId = id)

\* OrdinaryOwnPropertyKeys: array-index keys in ascending numeric order,
\* then the other string keys in the order of their creation
OwnPropertyKeys(keys) ==
  LET indices == {keys[i] : i \in {j \in 1..Len(keys) : IsArrayIndex(keys[j])}}
  IN AscendingIndices(indices) \o SelectSeq(keys, LAMBDA k : ~IsArrayIndex(k))

\* line 75: Object.entries(updatesByMember)
ObjectEntries(s) ==
  LET keys == OwnPropertyKeys(InsertionOrder(s))
  IN [i \in 1..Len(keys) |->
        [teamMemberId |-> keys[i], memberUpdates |-> MemberUpdates(s, keys[i])]]

-----------------------------------------------------------------------------
(* generateTeamReport: one member's section, lines 76-162 *)

\* lines 81-98: the entry of processedUpdates for one update: an object with
\* the decoded answers, or (JSON.parse threw) the update itself
ProcessedUpdate(u) ==
  [update |-> u, decoded |-> JSONParse(u.answers).ok]

\* new Date(timestamp).toLocaleString(): never throws
LocaleString(ts) ==
  IF DateGetTime(ts).nan THEN "Invalid Date" ELSE ts

\* lines 130-140 and 149-159: the lines shown for one update: its
\* question/answer pairs, or the error line when JSON.parse or
\* Object.entries throws
DisplayAnswers(u) ==
  IF JSONParse(u.answers).ok /\ JSONParse(u.answers).entries
  THEN "answers" ELSE "error"

\* the loop with one try around it: one failure degrades every entry
C6_OneFailureDegradesAll(shown) ==
  [i \in 1..Len(shown) |->
     [update |-> shown[i],
      date |-> LocaleString(shown[i].timestamp),
      display |-> IF \A j \in 1..Len(shown) : DisplayAnswers(shown[j]) = "answers"
                  THEN "answers" ELSE "error"]]

\* lines 127-141 and 146-160: the loop over the updates shown
DisplayEntries(shown) ==
  [i \in 1..Len(shown) |->
     [update |-> shown[i],
      date |-> LocaleString(shown[i].timestamp),
      display |-> DisplayAnswers(shown[i])]]

\* memberUpdates.slice(-3): the last three
C4_LastThree(memberUpdates) ==
  SubSeq(memberUpdates,
         IF Len(memberUpdates) > RecentLimit
         THEN Len(memberUpdates) - RecentLimit + 1 ELSE 1,
         Len(memberUpdates))

\* line 126: memberUpdates.slice(0, 3)
RecentUpdates(memberUpdates) ==
  SubSeq(memberUpdates, 1,
         IF Len(memberUpdates) < RecentLimit THEN Len(memberUpdates) ELSE RecentLimit)

\* a fallback loop that ends at the first update whose answers do not display
C7_FallbackStopsAtFailure(memberUpdates) ==
  LET bad == {i \in 1..Len(memberUpdates) :
                DisplayAnswers(memberUpdates[i]) = "error"}
  IN IF bad = {} THEN memberUpdates
     ELSE SubSeq(memberUpdates, 1, CHOOSE i \in bad : \A j \in bad : i <= j)

\* line 146: the fallback loops over all of memberUpdates
FallbackUpdates(memberUpdates) == memberUpdates

\* lines 76-162: the section of one member; modelOk is whether useModel
\* returned (lines 117-141) or threw (lines 142-161)
Section(entry, modelOk) ==
  [teamMemberId |-> entry.teamMemberId,
   payload |-> [i \in 1..Len(entry.memberUpdates) |->
                  ProcessedUpdate(entry.memberUpdates[i])],
   mode |-> IF modelOk THEN "analysis" ELSE "fallback",
   entries |-> IF modelOk
               THEN DisplayEntries(RecentUpdates(entry.memberUpdates))
               ELSE DisplayEntries(FallbackUpdates(entry.memberUpdates))]

\* the empty case without its "No updates found" line
C5_HeadingOnly(type) ==
  [title |-> type, noUpdates |-> FALSE, sections |-> <<>>]

\* lines 55-59: the heading followed by the "No updates found" line
NoUpdatesReport(type) ==
  [title |-> type, noUpdates |-> TRUE, sections |-> <<>>]

\* line 55: the heading alone
Heading(type) ==
  [title |-> type, noUpdates |-> FALSE, sections |-> <<>>]

-----------------------------------------------------------------------------
(* generateTeamReport: the steps between its awaits *)

\* lines 27-30: await runtime.getMemories(...): it returns the stored
\* memories, or it throws, and lines 168-171 rethrow to the caller (the
\* handler's outer catch, line 288)
GTR_GetMemories ==
  /\ gpc = "fetch"
  /\ fetchCount' = fetchCount + 1
  /\ \/ /\ gpc' = "build"
        /\ hpc' = hpc
     \/ /\ gpc' = "threw"
        /\ hpc' = IF hpc = "awaitReport" THEN "outerCatch" ELSE hpc
  /\ UNCHANGED <<state, callback, text, parsedType, standupType, result, calls,
                 memories, reqType, updates, members, idx, report, analysisCalls>>

\* lines 35-72: filter, sort, the empty case (return at line 59), grouping
GTR_Build ==
  /\ gpc = "build"
  /\ \E sorted \in SortOutcomes(FilteredUpdates(memories, reqType)) :
       /\ updates' = sorted
       /\ IF Len(sorted) = 0
          THEN /\ report' = NoUpdatesReport(reqType)
               /\ members' = <<>>
               /\ gpc' = "returned"
          ELSE /\ report' = Heading(reqType)
               /\ members' = ObjectEntries(sorted)
               /\ gpc' = "sections"
  /\ idx' = 1
  /\ UNCHANGED <<hvars, memories, reqType, fetchCount, analysisCalls>>

\* lines 75-163, one iteration: await runtime.useModel(...) returns or throws,
\* the section is appended; after the last member, lines 165-167 return
GTR_Section ==
  /\ gpc = "sections"
  /\ idx <= Len(members)
  /\ \E modelOk \in BOOLEAN :
       report' = [report EXCEPT !.sections = Append(@, Section(members[idx], modelOk))]
  /\ analysisCalls' = analysisCalls + 1
  /\ idx' = idx + 1
  /\ gpc' = IF idx = Len(members) THEN "returned" ELSE "sections"
  /\ UNCHANGED <<hvars, memories, reqType, updates, members, fetchCount>>

NextReport == GTR_GetMemories \/ GTR_Build \/ GTR_Section

-----------------------------------------------------------------------------
(* generateReport.handler, lines 188-306 *)

\* the test with === undefined in place of falsiness
C9_AskOnlyWhenUndefined(stateType, parsed) ==
  ~stateType.some /\ ~parsed.some

\* line 227: !state.standupType && !parsedType
AskForType(stateType, parsed) == ~Truthy(stateType) /\ ~Truthy(parsed)

\* line 244: ((state.standupType as string) || parsedType)?.toLowerCase()?.trim()
EffectiveType(stateType, parsed) ==
  Trim(ToLowerCase(IF Truthy(stateType) THEN stateType.val ELSE parsed.val))

\* line 252
validTypes == <<S_standup, S_sprint, S_mental_health, S_project_status, S_retro>>

\* the "more flexible matching" of the comment at line 251: startsWith
C2_PrefixMatch(type) ==
  \E i \in 1..Len(validTypes) :
    /\ Len(type) >= Len(validTypes[i])
    /\ SubSeq(type, 1, Len(validTypes[i])) = validTypes[i]

\* line 253: validTypes.some((type) => standupType === type)
IsValidType(type) == \E i \in 1..Len(validTypes) : validTypes[i] = type

\* one invocation of callback(content, [])
Call(content, threw) == Append(calls, [text |-> content, threw |-> threw])

\* lines 198-209: the early returns
H_Entry ==
  /\ hpc = "entry"
  /\ IF ~state.present \/ ~callback \/ ~Truthy(text)
     THEN result' = "false" /\ hpc' = "done"
     ELSE result' = result /\ hpc' = "classify"
  /\ UNCHANGED <<state, callback, text, parsedType, standupType, calls, gvars>>

\* lines 213-264 up to the next await: useModel throws (to line 265), or it
\* returns parsedType and the handler asks for the type (line 227), rejects
\* it (line 255) or calls generateTeamReport (line 278), which runs up to its
\* await of getMemories
H_Classify ==
  /\ hpc = "classify"
  /\ \/ /\ hpc' = "innerCatch"
        /\ UNCHANGED <<parsedType, standupType, gpc, reqType>>
     \/ \E parsed \in ParsedTypes :
          /\ parsedType' = Some(parsed)
          /\ IF AskForType(state.standupType, Some(parsed))
             THEN /\ hpc' = "prompt"
                  /\ UNCHANGED <<standupType, gpc, reqType>>
             ELSE LET type == EffectiveType(state.standupType, Some(parsed))
                  IN /\ standupType' = type
                     /\ IF IsValidType(type)
                        THEN /\ hpc' = "awaitReport"
                             /\ gpc' = "fetch"
                             /\ reqType' = type
                        ELSE /\ hpc' = "reject"
                             /\ UNCHANGED <<gpc, reqType>>
  /\ UNCHANGED <<state, callback, text, result, calls, memories, updates,
                 members, idx, report, fetchCount, analysisCalls>>

\* lines 236-241: await callback(promptContent, []); return true
H_Prompt ==
  /\ hpc = "prompt"
  /\ \E threw \in BOOLEAN :
       /\ calls' = Call("prompt", threw)
       /\ IF threw THEN hpc' = "innerCatch" /\ result' = result
          ELSE hpc' = "done" /\ result' = "true"
  /\ UNCHANGED <<state, callback, text, parsedType, standupType, gvars>>

\* lines 255-264: await callback({text: 'Invalid check-in type. ...'}, []);
\* return false
H_Reject ==
  /\ hpc = "reject"
  /\ \E threw \in BOOLEAN :
       /\ calls' = Call("invalid", threw)
       /\ IF threw THEN hpc' = "innerCatch" /\ result' = result
          ELSE hpc' = "done" /\ result' = "false"
  /\ UNCHANGED <<state, callback, text, parsedType, standupType, gvars>>

\* lines 265-275: catch (aiError): await callback({text: "I couldn't
\* understand the check-in type. ..."}, []); return false
H_InnerCatch ==
  /\ hpc = "innerCatch"
  /\ \E threw \in BOOLEAN :
       /\ calls' = Call("notUnderstood", threw)
       /\ IF threw THEN hpc' = "outerCatch" /\ result' = result
          ELSE hpc' = "done" /\ result' = "false"
  /\ UNCHANGED <<state, callback, text, parsedType, standupType, gvars>>

\* lines 278-287: generateTeamReport has returned: await callback({text:
\* report}, []); return true
H_Deliver ==
  /\ hpc = "awaitReport"
  /\ gpc = "returned"
  /\ \E threw \in BOOLEAN :
       /\ calls' = Call("report", threw)
       /\ IF threw THEN hpc' = "outerCatch" /\ result' = result
          ELSE hpc' = "done" /\ result' = "true"
  /\ UNCHANGED <<state, callback, text, parsedType, standupType, gvars>>

\* the outer catch without its callback invocation
C1_CatchWithoutApology ==
  /\ hpc = "outerCatch"
  /\ hpc' = "done"
  /\ result' = "false"
  /\ UNCHANGED <<state, callback, text, parsedType, standupType, calls, gvars>>

\* lines 288-305: catch (error): if (callback) await callback({text: 'An
\* error occurred ...'}, []); return false.  When this callback throws, the
\* handler's promise rejects
H_OuterCatch ==
  /\ hpc = "outerCatch"
  /\ hpc' = "done"
  /\ IF callback
     THEN \E threw \in BOOLEAN :
            /\ calls' = Call("error", threw)
            /\ result' = IF threw THEN "rejected" ELSE "false"
     ELSE calls' = calls /\ result' = "false"
  /\ UNCHANGED <<state, callback, text, parsedType, standupType, gvars>>

Next ==
  \/ H_Entry
  \/ H_Classify
  \/ H_Prompt
  \/ H_Reject
  \/ H_InnerCatch
  \/ H_Deliver
  \/ H_OuterCatch
  \/ GTR_GetMemories
  \/ GTR_Build
  \/ GTR_Section

-----------------------------------------------------------------------------
(* Initial states and specifications *)

\* before the handler runs
Init ==
  /\ state \in {[present |-> FALSE, standupType |-> Undefined]}
                 \cup {[present |-> TRUE, standupType |-> s] : s \in StateTypes}
  /\ callback \in BOOLEAN
  /\ text \in Texts
  /\ parsedType = Undefined
  /\ standupType = <<>>
  /\ hpc = "entry"
  /\ result = "pending"
  /\ calls = <<>>
  /\ memories \in SeqsUpTo(HandlerRecords, MaxMemHandler)
  /\ gpc = "idle"
  /\ reqType = <<>>
  /\ updates = <<>>
  /\ members = <<>>
  /\ idx = 1
  /\ report = Heading(<<>>)
  /\ fetchCount = 0
  /\ analysisCalls = 0

\* generateTeamReport called on its own, with the stored memories drawn
\* from the sequences over records of length at most max
InitReport(records, max) ==
  /\ state = [present |-> TRUE, standupType |-> Undefined]
  /\ callback = TRUE
  /\ text = Undefined
  /\ parsedType = Undefined
  /\ standupType = <<>>
  /\ hpc = "direct"
  /\ result = "pending"
  /\ calls = <<>>
  /\ memories \in SeqsUpTo(records, max)
  /\ gpc = "fetch"
  /\ reqType \in {S_standup, S_sprint}
  /\ updates = <<>>
  /\ members = <<>>
  /\ idx = 1
  /\ report = Heading(reqType)
  /\ fetchCount = 0
  /\ analysisCalls = 0

InitGroup == InitReport(GroupRecords, MaxMem)
InitRecent == InitReport(RecentRecords, MaxMemRecent)
InitDecode == InitReport(DecodeRecords, MaxMem)
InitSort == InitReport(SortRecords, MaxMem)
InitFilter == InitReport(FilterRecords, MaxMem)

Spec == Init /\ [][Next]_vars
SpecGroup == InitGroup /\ [][NextReport]_vars
SpecRecent == InitRecent /\ [][NextReport]_vars
SpecDecode == InitDecode /\ [][NextReport]_vars
SpecSort == InitSort /\ [][NextReport]_vars
SpecFilter == InitFilter /\ [][NextReport]_vars

-----------------------------------------------------------------------------
(* Properties of the handler, checked under Spec *)

\* the five check-in types
FiveCategories == {S_standup, S_sprint, S_mental_health, S_project_status, S_retro}

\* generateTeamReport was not called: no store fetch, no analysis model call
ReportNeverCalled == gpc = "idle" /\ fetchCount = 0 /\ analysisCalls = 0

\* the handler got a classification or a pre-supplied type, and that type,
\* lower-cased and trimmed, is none of the five
EffectiveInvalid ==
  /\ parsedType.some
  /\ Truthy(state.standupType) \/ Truthy(parsedType)
  /\ EffectiveType(state.standupType, parsedType) \notin FiveCategories

\* the classification came back empty and state carries no type
NoClassification ==
  /\ parsedType.some
  /\ parsedType.val = <<>>
  /\ ~Truthy(state.standupType)

C2_Rejects ==
  EffectiveInvalid =>
    /\ ReportNeverCalled
    /\ hpc = "done" =>
         /\ calls # <<>>
         /\ calls[1].text = "invalid"
         /\ result = "false"

\* C2 amended: an effective type that is none of the five makes the handler
\* invoke the callback with the rejection message first, and
\* generateTeamReport is never called; the handler returns false, except that
\* its promise rejects when the rejection and both apologies after it throw.
C2_RejectsUnlessCallbackThrows ==
  EffectiveInvalid =>
    /\ ReportNeverCalled
    /\ calls # <<>> => calls[1].text = "invalid"
    /\ \A i \in 1..Len(calls) : calls[i].text # "report"
    /\ hpc = "done" =>
         /\ calls # <<>>
         /\ \/ result = "false"
            \/ /\ result = "rejected"
               /\ Len(calls) = 3
               /\ \A i \in 1..3 : calls[i].threw

\* an invalid type was rejected and the handler returned false
C2_Witness ==
  /\ hpc = "done"
  /\ EffectiveInvalid
  /\ calls = <<[text |-> "invalid", threw |-> FALSE]>>
  /\ result = "false"

\* C9 as stated: no classification and no pre-supplied type: the prompt is
\* delivered and nothing else (no report, no rejection, no error message), and
\* generateTeamReport is not called.
C9_PromptOnly ==
  NoClassification =>
    /\ ReportNeverCalled
    /\ hpc = "done" =>
         /\ Len(calls) = 1
         /\ calls[1].text = "prompt"

\* C9 amended: no classification and no pre-supplied type: the handler invokes
\* the callback with the prompt first, generateTeamReport is not called, and
\* no report and no rejection is ever delivered; when the prompt's delivery
\* returns, the handler stops there and returns true; only when it throws does
\* the inner catch deliver the "couldn't understand" message.
C9_PromptThenStop ==
  NoClassification =>
    /\ ReportNeverCalled
    /\ calls # <<>> => calls[1].text = "prompt"
    /\ \A i \in 1..Len(calls) : calls[i].text \notin {"report", "invalid"}
    /\ hpc = "done" =>
         /\ calls # <<>>
         /\ ~calls[1].threw => (Len(calls) = 1 /\ result = "true")
         /\ calls[1].threw => (Len(calls) >= 2 /\ calls[2].text = "notUnderstood")

\* the prompt was delivered and the handler stopped
C9_Witness ==
  /\ hpc = "done"
  /\ NoClassification
  /\ calls = <<[text |-> "prompt", threw |-> FALSE]>>
  /\ result = "true"

-----------------------------------------------------------------------------
(* Properties of generateTeamReport *)

\* the stored memories that are structured team-member updates
Matching == {i \in 1..Len(memories) :
               memories[i].type = "team-member-update" /\ memories[i].hasUpdate}

\* the sorted updates of one author, in their sorted order
AuthorUpdates(id) == SelectSeq(updates, LAMBDA u : u.teamMemberId = id)

\* the authors of the sorted updates
Authors == {updates[i].teamMemberId : i \in 1..Len(updates)}

\* the updates a section lists
Listed(section) == [i \in 1..Len(section.entries) |-> section.entries[i].update]

Parses(u) == u.timestamp \in {T1, T2, T3}
TimeOf(u) == CASE u.timestamp = T1 -> 1 [] u.timestamp = T2 -> 2 [] OTHER -> 3
AllParse(s) == \A i \in 1..Len(s) : Parses(s[i])

\* newest first
Descending(s) ==
  \A i, j \in 1..Len(s) : i < j => (Parses(s[i]) /\ Parses(s[j]) /\ TimeOf(s[i]) >= TimeOf(s[j]))

\* the answers strings that decode to an object
Decodes(u) == u.answers \in {AnswersOk, AnswersEmpty}
\* the answers strings JSON.parse rejects
Malformed(u) == u.answers = AnswersBad

RECURSIVE FirstOccurrences(_)
\* the authors of s in the order of their first record in s
FirstOccurrences(s) ==
  IF s = <<>> THEN <<>>
  ELSE LET rest == FirstOccurrences(Tail(s))
       IN <<s[1].teamMemberId>> \o SelectSeq(rest, LAMBDA id : id # s[1].teamMemberId)

\* C3: every author has exactly one section, holding all of the author's
\* records, and the sections are in the order in which the authors first occur
\* in the sorted updates (the author of the newest record first).
C3_SectionOrder ==
  gpc = "returned" =>
    /\ \A k \in 1..Len(report.sections) :
         Len(report.sections[k].payload) = Len(AuthorUpdates(report.sections[k].teamMemberId))
    /\ [k \in 1..Len(report.sections) |-> report.sections[k].teamMemberId]
         = FirstOccurrences(updates)

\* C4 as stated: every section lists at most 3 entries, the author's 3 newest,
\* newest first, whichever way the section was produced (the order is asked
\* for only when every timestamp parses, where "newest" is defined).
C4_AtMostThreeNewest ==
  gpc = "returned" =>
    \A k \in 1..Len(report.sections) :
      LET section == report.sections[k]
          mine == AuthorUpdates(section.teamMemberId)
      IN /\ Len(section.entries) <= 3
         /\ Listed(section) = SubSeq(mine, 1, IF Len(mine) < 3 THEN Len(mine) ELSE 3)
         /\ AllParse(updates) => Descending(mine)

\* C4 amended: a section produced with a generated analysis lists the first 3
\* (or fewer) of the author's sorted records; a section produced by the
\* fallback lists all of the author's records; in both, when every timestamp
\* of the sorted records parses, the author's records are newest first, so
\* the 3 listed with an analysis are the 3 newest.
C4_RecentEntries ==
  gpc = "returned" =>
    \A k \in 1..Len(report.sections) :
      LET section == report.sections[k]
          mine == AuthorUpdates(section.teamMemberId)
      IN /\ section.mode = "analysis" =>
              /\ Len(section.entries) <= 3
              /\ Listed(section) = SubSeq(mine, 1, IF Len(mine) < 3 THEN Len(mine) ELSE 3)
         /\ section.mode = "fallback" => Listed(section) = mine
         /\ AllParse(updates) => Descending(mine)

\* an author with four records at two different times: the analysis section
\* lists three of them
C4_Witness ==
  /\ gpc = "returned"
  /\ AllParse(updates)
  /\ \E k \in 1..Len(report.sections) :
       /\ report.sections[k].mode = "analysis"
       /\ Len(AuthorUpdates(report.sections[k].teamMemberId)) = 4
       /\ Len(report.sections[k].entries) = 3
       /\ report.sections[k].entries[1].update.timestamp = T2
       /\ AuthorUpdates(report.sections[k].teamMemberId)[4].timestamp = T1

\* C5: when no stored record is a structured team-member update, the report is
\* exactly the "no updates found for <type>" message: no section, no
\* text-generation call, and nothing after the fetch throws.
C5_NoUpdatesMessage ==
  Matching = {} =>
    /\ analysisCalls = 0
    /\ gpc \in {"fetch", "build", "returned", "threw"}
    /\ gpc = "threw" => (fetchCount = 1 /\ updates = <<>> /\ report.sections = <<>>)
    /\ gpc = "returned" =>
         report = [title |-> reqType, noUpdates |-> TRUE, sections |-> <<>>]

\* records are stored, none of them a structured update, and the report came back
C5_Witness ==
  /\ gpc = "returned"
  /\ Matching = {}
  /\ \E i \in 1..Len(memories) : memories[i].type = "team-member-update"
  /\ \E i \in 1..Len(memories) : memories[i].hasUpdate
  /\ report.noUpdates

\* C6: a record whose answers fail to decode does not abort the report: every
\* author has a section, every record is in its author's payload (the raw
\* record exactly when its answers are malformed), and every listed record
\* shows its decoded answers unless its own answers do not decode.
C6_DecodeFailureIsLocal ==
  /\ gpc = "threw" => (updates = <<>> /\ analysisCalls = 0)
  /\ gpc = "returned" =>
       /\ {report.sections[k].teamMemberId : k \in 1..Len(report.sections)} = Authors
       /\ Len(report.sections) = Cardinality(Authors)
       /\ \A k \in 1..Len(report.sections) :
            LET section == report.sections[k]
                mine == AuthorUpdates(section.teamMemberId)
            IN /\ Len(section.payload) = Len(mine)
               /\ \A i \in 1..Len(mine) :
                    /\ section.payload[i].update = mine[i]
                    /\ section.payload[i].decoded <=> ~Malformed(mine[i])
               /\ Len(section.entries) = (IF section.mode = "analysis" /\ Len(mine) > 3
                                          THEN 3 ELSE Len(mine))
               /\ \A i \in 1..Len(section.entries) :
                    /\ section.entries[i].update = mine[i]
                    /\ section.entries[i].display = "answers" <=> Decodes(mine[i])
                    /\ Malformed(mine[i]) => section.entries[i].display = "error"

\* a malformed record next to a well-formed one of the same author, and a
\* second author
C6_Witness ==
  /\ gpc = "returned"
  /\ Len(report.sections) = 2
  /\ \E k \in 1..2 :
       /\ Len(report.sections[k].entries) = 2
       /\ \E i, j \in 1..2 :
            /\ Malformed(report.sections[k].entries[i].update)
            /\ report.sections[k].entries[i].display = "error"
            /\ ~report.sections[k].payload[i].decoded
            /\ report.sections[k].entries[j].update.answers = AnswersOk
            /\ report.sections[k].entries[j].display = "answers"

\* C7: when the text generation fails for an author, the report is still
\* returned; that author's section lists all of the author's records, each
\* with its question/answer pairs (or the error line when its own answers do
\* not decode; "Invalid Date" when its timestamp does not parse); every author
\* has a section and a text-generation call of its own.
C7_FallbackIsLocal ==
  /\ gpc = "threw" => analysisCalls = 0
  /\ gpc \in {"sections", "returned"} => analysisCalls = Len(report.sections)
  /\ gpc = "returned" =>
       /\ Len(report.sections) = Cardinality(Authors)
       /\ \A k \in 1..Len(report.sections) :
            LET section == report.sections[k]
                mine == AuthorUpdates(section.teamMemberId)
            IN section.mode = "fallback" =>
                 /\ Listed(section) = mine
                 /\ \A i \in 1..Len(mine) :
                      /\ section.entries[i].display = "answers" <=> Decodes(mine[i])
                      /\ section.entries[i].date = "Invalid Date" <=> ~Parses(mine[i])

\* the first author's analysis failed on records with malformed answers and an
\* invalid timestamp; the second author's section was generated
C7_Witness ==
  /\ gpc = "returned"
  /\ Len(report.sections) = 2
  /\ report.sections[1].mode = "fallback"
  /\ report.sections[2].mode = "analysis"
  /\ Len(report.sections[1].entries) = 2
  /\ Malformed(report.sections[1].entries[1].update)
  /\ report.sections[1].entries[1].date = "Invalid Date"
  /\ report.sections[1].entries[2].display = "answers"

\* C8 as stated: the updates are sorted newest first, and a timestamp that
\* cannot be parsed makes generateTeamReport fail instead of returning a report.
C8_ParseError ==
  /\ gpc \in {"sections", "returned"} => (AllParse(updates) => Descending(updates))
  /\ gpc = "returned" => AllParse(updates)

\* C8 amended: the sort never fails: the sorted updates are the matching
\* records, newest first when every timestamp parses; a record whose timestamp
\* does not parse stays in the report (in its author's payload, and shown as
\* "Invalid Date" where it is listed), and the report is returned.
C8_SortNeverFails ==
  /\ gpc = "threw" => updates = <<>>
  /\ gpc \in {"sections", "returned"} =>
       /\ Len(updates) = Cardinality(Matching)
       /\ \A i \in Matching :
            Cardinality({j \in 1..Len(updates) : updates[j] = memories[i].update})
              = Cardinality({j \in Matching : memories[j].update = memories[i].update})
       /\ AllParse(updates) => Descending(updates)
  /\ gpc = "returned" =>
       /\ \A i \in 1..Len(updates) :
            \E k \in 1..Len(report.sections) :
              \E j \in 1..Len(report.sections[k].payload) :
                report.sections[k].payload[j].update = updates[i]
       /\ \A k \in 1..Len(report.sections) :
            \A j \in 1..Len(report.sections[k].entries) :
              report.sections[k].entries[j].date = "Invalid Date"
                <=> ~Parses(report.sections[k].entries[j].update)

\* a report returned over three records, one with a timestamp that does not parse
C8_Witness ==
  /\ gpc = "returned"
  /\ Len(updates) = 3
  /\ \E i \in 1..3 : ~Parses(updates[i])
  /\ \E i, j \in 1..3 : Parses(updates[i]) /\ Parses(updates[j]) /\ TimeOf(updates[i]) > TimeOf(updates[j])

=============================================================================
